---------------------------- MODULE Spec2Model ----------------------------
(***************************************************************************)
(* Real-time relay of the greenhouse dashboard server (Layer6 server):     *)
(* the MQTT message handler, the in-memory dashboardData store, the        *)
(* socket.io fan-out and the alert acknowledgment paths.                   *)
(*                                                                         *)
(* Node runs every callback to completion, so each callback is one action. *)
(* A JavaScript object is a function from property names to values; an     *)
(* object whose property order matters (dashboardData.sensors, read with   *)
(* Object.keys) is a sequence of [key, value] pairs in insertion order.    *)
(***************************************************************************)
EXTENDS Integers, Sequences, FiniteSets, TLC

VARIABLES
    dashboardData,  \* the store: sensors, alerts, predictions, systemStatus, statistics
    clients,        \* sockets currently connected to io
    emitted,        \* socket.io events sent by the last callback, in order
    response,       \* HTTP response written by the last callback (NoResponse if none)
    request,        \* what the last callback was called with
    caught,         \* whether the last callback ended in its catch block (error logged)
    now,            \* the clock when the last callback that reads it ran
    msgCount,       \* history: bus messages delivered to the 'message' callback
    sensorLog,      \* history: <<decoded payload, clock>> of every handleSensorData call
    alertLog,       \* history: <<decoded payload, clock>> of every handleEmergencyAlert call
    predictionLog,  \* history: <<decoded payload, clock>> of every handlePredictionData call
    ackCalls,       \* history: acknowledgment requests served (both paths)
    script          \* environment: the cyclic message/clock pattern of a long run

vars == <<dashboardData, clients, emitted, response, request, caught, now, msgCount,
          sensorLog, alertLog, predictionLog, ackCalls, script>>

---------------------------------------------------------------------------
(* Program constants *)

MaxSensors == 100
MaxAlerts == 50

(* Bounds of the model *)

MaxSensorMsgs == 102    \* bus messages in a run of SpecSensors
MaxAlertMsgs == 52      \* bus messages in a run of SpecAlerts
PayloadCycleLen == 2    \* longest repeating pattern of payloads in a long run
TickCycleLen == 2       \* longest repeating pattern of clock advances in a long run
MaxRelayMsgs == 2       \* bus messages in a run of SpecRelay
MaxAckMsgs == 2         \* bus messages in a run of SpecAck
MaxAckCalls == 2        \* acknowledgment requests in a run of SpecAck

---------------------------------------------------------------------------
(* Topics and wire payloads *)

SensorTopic == "invernadero/sensores/raw"
AlertTopic == "invernadero/alertas/emergentes"
PredictionTopic == "invernadero/predicciones"
AnomalyTopic == "invernadero/anomalias"
OtherTopic == "invernadero/otro"

Topics == {SensorTopic, AlertTopic, PredictionTopic, AnomalyTopic}

MsgCritical == "{\"severity\":\"CRITICAL\"}"
MsgWarning == "{\"severity\":\"WARNING\"}"
MsgZone == "{\"zone\":\"A\"}"
MsgOwnId == "{\"id\":\"alert_1\",\"acknowledged\":true}"
MsgOwnTimestamp == "{\"timestamp\":-1}"
MsgNull == "null"
MsgNumber == "42"
MsgMalformed == "{severity:"

EmptyObject == [k \in {} |-> k]

\* JSON.parse(message.toString()): ok = FALSE is the SyntaxError it throws.
\* A decoded value is tagged with its JavaScript type; an object carries its
\* own properties.
JSONparse(message) ==
    CASE message = MsgCritical -> [ok |-> TRUE, type |-> "object", fields |-> [severity |-> "CRITICAL"]]
      [] message = MsgWarning  -> [ok |-> TRUE, type |-> "object", fields |-> [severity |-> "WARNING"]]
      [] message = MsgZone     -> [ok |-> TRUE, type |-> "object", fields |-> [zone |-> "A"]]
      [] message = MsgOwnId    -> [ok |-> TRUE, type |-> "object", fields |-> [id |-> "alert_1", acknowledged |-> TRUE]]
      [] message = MsgOwnTimestamp -> [ok |-> TRUE, type |-> "object", fields |-> [timestamp |-> -1]]
      [] message = MsgNull     -> [ok |-> TRUE, type |-> "null", fields |-> EmptyObject]
      [] message = MsgNumber   -> [ok |-> TRUE, type |-> "number", fields |-> EmptyObject]
      [] OTHER                 -> [ok |-> FALSE, type |-> "undefined", fields |-> EmptyObject]

\* {...data}: the own enumerable properties of data; none for null or a number.
Spread(data) == IF data.type = "object" THEN data.fields ELSE EmptyObject

\* data.severity throws a TypeError on null (and only on null or undefined).
ReadThrows(data) == data.type = "null"

\* data.severity === 'CRITICAL'
IsCritical(data) ==
    /\ "severity" \in DOMAIN Spread(data)
    /\ Spread(data).severity = "CRITICAL"

---------------------------------------------------------------------------
(* The store *)

InitialData ==
    [sensors |-> <<>>,
     alerts |-> <<>>,
     predictions |-> EmptyObject,
     systemStatus |-> [layer1 |-> [status |-> "online", lastUpdate |-> 0],
                       layer2 |-> [status |-> "online", lastUpdate |-> 0],
                       layer5 |-> [status |-> "online", lastUpdate |-> 0]],
     statistics |-> [totalAlerts |-> 0, criticalAlerts |-> 0, anomaliesDetected |-> 0]]

SensorId(t) == "sensor_" \o ToString(t)
AlertId(t) == "alert_" \o ToString(t)

\* Object.keys(obj): the property names in insertion order.
ObjectKeys(obj) == [i \in 1..Len(obj) |-> obj[i].key]

\* obj[key] = value: an existing property keeps its place, a new one goes last.
SetProperty(obj, key, value) ==
    IF \E i \in 1..Len(obj) : obj[i].key = key
    THEN [i \in 1..Len(obj) |->
            IF obj[i].key = key THEN [key |-> key, value |-> value] ELSE obj[i]]
    ELSE Append(obj, [key |-> key, value |-> value])

\* delete obj[key]
DeleteProperty(obj, key) == SelectSeq(obj, LAMBDA p : p.key # key)

\* The record handleSensorData stores: {...data, timestamp, status}; the later
\* properties override the payload's.
SensorRecord(data, t) ==
    [status |-> "active"] @@ [timestamp |-> t] @@ Spread(data)

\* Mutant of EvictSensors: deletes the newest key instead of the oldest.
EvictSensorsNewest(sensors) ==
    LET sensorKeys == ObjectKeys(sensors)
    IN  IF Len(sensorKeys) > MaxSensors
        THEN DeleteProperty(sensors, sensorKeys[Len(sensorKeys)])
        ELSE sensors

\* if (sensorKeys.length > 100) delete dashboardData.sensors[sensorKeys[0]]
EvictSensors(sensors) ==
    LET sensorKeys == ObjectKeys(sensors)
    IN  IF Len(sensorKeys) > MaxSensors
        THEN DeleteProperty(sensors, sensorKeys[1])
        ELSE sensors

\* Each handler maps the store to [dd: the store it leaves, out: the events it
\* emitted, threw: whether it ended by throwing].
handleSensorData(dd, data, t) ==
    LET assigned == SetProperty(dd.sensors, SensorId(t), SensorRecord(data, t))
    IN  [dd |-> [dd EXCEPT !.sensors = EvictSensors(assigned)],
         out |-> <<>>,
         threw |-> FALSE]

\* The record handleEmergencyAlert builds: {id, ...data, timestamp, acknowledged};
\* the payload's properties override id, and are overridden by the later two.
AlertRecord(data, t) ==
    [acknowledged |-> FALSE] @@ [timestamp |-> t] @@ Spread(data) @@ [id |-> AlertId(t)]

\* Mutant of CountAlert: the total follows the length of the capped list.
CountAlertCapped(statistics) ==
    IF statistics.totalAlerts < MaxAlerts
    THEN [statistics EXCEPT !.totalAlerts = @ + 1]
    ELSE statistics

\* dashboardData.statistics.totalAlerts++
CountAlert(statistics) == [statistics EXCEPT !.totalAlerts = @ + 1]

\* Mutant of CountCritical: counts every alert that carries a severity.
CountAnySeverity(statistics, data) ==
    IF "severity" \in DOMAIN Spread(data)
    THEN [statistics EXCEPT !.criticalAlerts = @ + 1]
    ELSE statistics

\* if (data.severity === 'CRITICAL') dashboardData.statistics.criticalAlerts++
CountCritical(statistics, data) ==
    IF IsCritical(data)
    THEN [statistics EXCEPT !.criticalAlerts = @ + 1]
    ELSE statistics

\* if (alerts.length > 50) alerts = alerts.slice(0, 50)
TruncateAlerts(alerts) ==
    IF Len(alerts) > MaxAlerts THEN SubSeq(alerts, 1, MaxAlerts) ELSE alerts

\* io.emit(event, data): one message to every connected socket.
IoEmit(event, data) == [event |-> event, to |-> clients, data |-> data]

\* socket.emit(event, data): one message to that socket.
SocketEmit(socket, event, data) == [event |-> event, to |-> {socket}, data |-> data]

\* Mutant of handleEmergencyAlert: the total is read off the stored list.
handleEmergencyAlertCountsList(dd, data, t) ==
    LET alert == AlertRecord(data, t)
        unshifted == [dd EXCEPT !.alerts = <<alert>> \o @,
                                !.statistics.totalAlerts = Len(dd.alerts) + 1]
        counted == [unshifted EXCEPT !.statistics = CountCritical(@, data)]
        truncated == [counted EXCEPT !.alerts = TruncateAlerts(@),
                                     !.statistics.totalAlerts =
                                         Len(TruncateAlerts(counted.alerts))]
    IN  IF ReadThrows(data)
        THEN [dd |-> unshifted, out |-> <<>>, threw |-> TRUE]
        ELSE [dd |-> truncated, out |-> <<IoEmit("newAlert", alert)>>, threw |-> FALSE]

\* The statements up to the read of data.severity have taken effect when that
\* read throws; the statements after it have not.
handleEmergencyAlert(dd, data, t) ==
    LET alert == AlertRecord(data, t)
        unshifted == [dd EXCEPT !.alerts = <<alert>> \o @,
                                !.statistics = CountAlert(@)]
        counted == [unshifted EXCEPT !.statistics = CountCritical(@, data)]
        truncated == [counted EXCEPT !.alerts = TruncateAlerts(@)]
    IN  IF ReadThrows(data)
        THEN [dd |-> unshifted, out |-> <<>>, threw |-> TRUE]
        ELSE [dd |-> truncated, out |-> <<IoEmit("newAlert", alert)>>, threw |-> FALSE]

\* Mutant of handlePredictionData: the new prediction is merged into the
\* stored one.
handlePredictionDataMerged(dd, data, t) ==
    [dd |-> [dd EXCEPT !.predictions = [timestamp |-> t] @@ Spread(data) @@ @],
     out |-> <<>>,
     threw |-> FALSE]

\* dashboardData.predictions = {...data, timestamp: new Date()}
handlePredictionData(dd, data, t) ==
    [dd |-> [dd EXCEPT !.predictions = [timestamp |-> t] @@ Spread(data)],
     out |-> <<>>,
     threw |-> FALSE]

handleAnomalyData(dd, data) ==
    [dd |-> [dd EXCEPT !.statistics.anomaliesDetected = @ + 1],
     out |-> <<>>,
     threw |-> FALSE]

\* Mutant of Dispatch: the prediction case lacks its break and falls through
\* to the anomaly case.
DispatchFallThrough(dd, topic, data, t) ==
    CASE topic = SensorTopic     -> handleSensorData(dd, data, t)
      [] topic = AlertTopic      -> handleEmergencyAlert(dd, data, t)
      [] topic = PredictionTopic ->
            handleAnomalyData(handlePredictionData(dd, data, t).dd, data)
      [] topic = AnomalyTopic    -> handleAnomalyData(dd, data)
      [] OTHER                   -> [dd |-> dd, out |-> <<>>, threw |-> FALSE]

\* switch (topic): a topic without a case runs no handler.
Dispatch(dd, topic, data, t) ==
    CASE topic = SensorTopic     -> handleSensorData(dd, data, t)
      [] topic = AlertTopic      -> handleEmergencyAlert(dd, data, t)
      [] topic = PredictionTopic -> handlePredictionData(dd, data, t)
      [] topic = AnomalyTopic    -> handleAnomalyData(dd, data)
      [] OTHER                   -> [dd |-> dd, out |-> <<>>, threw |-> FALSE]

NoResponse == [status |-> 0]

\* mqttClient.on('message'): the callback runs at clock t. A throw anywhere in
\* the try block (JSON.parse or a handler) skips the rest of the block,
\* the dataUpdate emit included, and is logged.
OnMessage(topic, message, t) ==
    LET data == JSONparse(message)
        r == Dispatch(dashboardData, topic, data, t)
    IN  /\ now' = t
        /\ msgCount' = msgCount + 1
        /\ request' = [kind |-> "message", topic |-> topic, message |-> message]
        /\ IF ~data.ok
           THEN /\ UNCHANGED <<dashboardData, sensorLog, alertLog, predictionLog>>
                /\ emitted' = <<>>
                /\ caught' = TRUE
           ELSE /\ dashboardData' = r.dd
                /\ caught' = r.threw
                /\ emitted' = IF r.threw
                              THEN r.out
                              ELSE Append(r.out, IoEmit("dataUpdate",
                                       [topic |-> topic, data |-> data, timestamp |-> t]))
                /\ sensorLog' = IF topic = SensorTopic
                                THEN Append(sensorLog, <<data, t>>) ELSE sensorLog
                /\ alertLog' = IF topic = AlertTopic
                               THEN Append(alertLog, <<data, t>>) ELSE alertLog
                /\ predictionLog' = IF topic = PredictionTopic
                                    THEN Append(predictionLog, <<data, t>>)
                                    ELSE predictionLog
        /\ response' = NoResponse
        /\ UNCHANGED <<clients, ackCalls, script>>

\* Mutant of FindAlert: falls back to the newest alert when none matches.
FindAlertOrNewest(alerts, alertId) ==
    IF \E i \in 1..Len(alerts) : alerts[i].id = alertId
    THEN CHOOSE i \in 1..Len(alerts) :
            /\ alerts[i].id = alertId
            /\ \A j \in 1..(i - 1) : alerts[j].id # alertId
    ELSE IF Len(alerts) > 0 THEN 1 ELSE 0

\* alerts.find(a => a.id === alertId): the index of the first match, 0 for undefined.
FindAlert(alerts, alertId) ==
    IF \E i \in 1..Len(alerts) : alerts[i].id = alertId
    THEN CHOOSE i \in 1..Len(alerts) :
            /\ alerts[i].id = alertId
            /\ \A j \in 1..(i - 1) : alerts[j].id # alertId
    ELSE 0

\* Mutant of Acknowledged: toggles the flag.
AcknowledgedToggled(alert) == [alert EXCEPT !.acknowledged = ~@]

\* alert.acknowledged = true
Acknowledged(alert) == [alert EXCEPT !.acknowledged = TRUE]

\* alert.acknowledgedAt = new Date()
AcknowledgedAt(alert, t) == [acknowledgedAt |-> t] @@ alert

\* app.post('/api/alerts/:id/acknowledge')
PostAcknowledge(alertId, t) ==
    LET i == FindAlert(dashboardData.alerts, alertId)
        alert == AcknowledgedAt(Acknowledged(dashboardData.alerts[i]), t)
    IN  /\ now' = t
        /\ ackCalls' = ackCalls + 1
        /\ request' = [kind |-> "POST acknowledge", id |-> alertId]
        /\ caught' = FALSE
        /\ IF i # 0
           THEN /\ dashboardData' = [dashboardData EXCEPT !.alerts[i] = alert]
                /\ response' = [status |-> 200, body |-> [success |-> TRUE, alert |-> alert]]
           ELSE /\ UNCHANGED dashboardData
                /\ response' = [status |-> 404, body |-> [error |-> "Alert not found"]]
        /\ emitted' = <<>>
        /\ UNCHANGED <<clients, msgCount, sensorLog, alertLog, predictionLog, script>>

\* app.get('/api/dashboard-data')
GetDashboardData ==
    /\ response' = [status |-> 200, body |-> dashboardData]
    /\ emitted' = <<>>
    /\ request' = [kind |-> "GET dashboard-data"]
    /\ caught' = FALSE
    /\ UNCHANGED <<dashboardData, clients, now, msgCount, sensorLog, alertLog, predictionLog,
                   ackCalls, script>>

\* Mutant of Connection: greets the socket with the store as it was at start-up.
ConnectionStale(socket) ==
    /\ socket \notin clients
    /\ clients' = clients \cup {socket}
    /\ emitted' = <<SocketEmit(socket, "initialData", InitialData)>>
    /\ response' = NoResponse
    /\ request' = [kind |-> "connection", socket |-> socket]
    /\ caught' = FALSE
    /\ UNCHANGED <<dashboardData, now, msgCount, sensorLog, alertLog, predictionLog,
                   ackCalls, script>>

\* io.on('connection')
Connection(socket) ==
    /\ socket \notin clients
    /\ clients' = clients \cup {socket}
    /\ emitted' = <<SocketEmit(socket, "initialData", dashboardData)>>
    /\ response' = NoResponse
    /\ request' = [kind |-> "connection", socket |-> socket]
    /\ caught' = FALSE
    /\ UNCHANGED <<dashboardData, now, msgCount, sensorLog, alertLog, predictionLog,
                   ackCalls, script>>

\* Mutant of RequestData: answers with io.emit, to every socket.
RequestDataBroadcast(socket) ==
    /\ socket \in clients
    /\ emitted' = <<IoEmit("dataUpdate", dashboardData)>>
    /\ response' = NoResponse
    /\ request' = [kind |-> "requestData", socket |-> socket]
    /\ caught' = FALSE
    /\ UNCHANGED <<dashboardData, clients, now, msgCount, sensorLog, alertLog, predictionLog,
                   ackCalls, script>>

\* socket.on('requestData')
RequestData(socket) ==
    /\ socket \in clients
    /\ emitted' = <<SocketEmit(socket, "dataUpdate", dashboardData)>>
    /\ response' = NoResponse
    /\ request' = [kind |-> "requestData", socket |-> socket]
    /\ caught' = FALSE
    /\ UNCHANGED <<dashboardData, clients, now, msgCount, sensorLog, alertLog, predictionLog,
                   ackCalls, script>>

\* Mutant of AcknowledgeAlert: an id that matches no alert acknowledges the
\* newest one.
AcknowledgeAlertOrNewest(socket, alertId) ==
    LET i == FindAlertOrNewest(dashboardData.alerts, alertId)
    IN  /\ socket \in clients
        /\ ackCalls' = ackCalls + 1
        /\ request' = [kind |-> "acknowledgeAlert", socket |-> socket, id |-> alertId]
        /\ caught' = FALSE
        /\ IF i # 0
           THEN /\ dashboardData' = [dashboardData EXCEPT !.alerts[i] = Acknowledged(@)]
                /\ emitted' = <<IoEmit("alertAcknowledged", alertId)>>
           ELSE /\ UNCHANGED dashboardData
                /\ emitted' = <<>>
        /\ response' = NoResponse
        /\ UNCHANGED <<clients, now, msgCount, sensorLog, alertLog, predictionLog, script>>

\* socket.on('acknowledgeAlert')
AcknowledgeAlert(socket, alertId) ==
    LET i == FindAlert(dashboardData.alerts, alertId)
    IN  /\ socket \in clients
        /\ ackCalls' = ackCalls + 1
        /\ request' = [kind |-> "acknowledgeAlert", socket |-> socket, id |-> alertId]
        /\ caught' = FALSE
        /\ IF i # 0
           THEN /\ dashboardData' = [dashboardData EXCEPT !.alerts[i] = Acknowledged(@)]
                /\ emitted' = <<IoEmit("alertAcknowledged", alertId)>>
           ELSE /\ UNCHANGED dashboardData
                /\ emitted' = <<>>
        /\ response' = NoResponse
        /\ UNCHANGED <<clients, now, msgCount, sensorLog, alertLog, predictionLog, script>>

\* socket.on('disconnect')
Disconnect(socket) ==
    /\ socket \in clients
    /\ clients' = clients \ {socket}
    /\ emitted' = <<>>
    /\ response' = NoResponse
    /\ request' = [kind |-> "disconnect", socket |-> socket]
    /\ caught' = FALSE
    /\ UNCHANGED <<dashboardData, now, msgCount, sensorLog, alertLog, predictionLog,
                   ackCalls, script>>

---------------------------------------------------------------------------
(* Environment *)

Sockets == {"s1", "s2"}

\* The clock does not run backwards, and several callbacks may run within one
\* millisecond.
ClockReadings == {now, now + 1}

UnknownId == "alert_x"

\* The ids a caller may name: every id in the list, and one that is not.
AlertIds == {dashboardData.alerts[i].id : i \in 1..Len(dashboardData.alerts)} \cup {UnknownId}

Cycles(S, n) == UNION {[1..k -> S] : k \in 1..n}

NoScript == [messages |-> <<>>, ticks |-> <<>>]

SensorScriptMessages == {MsgZone, MsgNull, MsgMalformed}
AlertScriptMessages == {MsgCritical, MsgWarning, MsgNull, MsgMalformed}

\* A long run repeats one pattern of payloads and one pattern of clock
\* advances, both chosen at the start.
Scripts(messages) ==
    [messages : Cycles(messages, PayloadCycleLen), ticks : Cycles({0, 1}, TickCycleLen)]

ScriptedMessage == script.messages[(msgCount % Len(script.messages)) + 1]
ScriptedTime == now + script.ticks[(msgCount % Len(script.ticks)) + 1]

InitState ==
    /\ dashboardData = InitialData
    /\ clients = {}
    /\ emitted = <<>>
    /\ response = NoResponse
    /\ request = [kind |-> "none"]
    /\ caught = FALSE
    /\ now = 0
    /\ msgCount = 0
    /\ sensorLog = <<>>
    /\ alertLog = <<>>
    /\ predictionLog = <<>>
    /\ ackCalls = 0

Init == InitState /\ script = NoScript

\* The payloads tried on each topic in a short run.
MessagesOn(topic) ==
    IF topic = AlertTopic
    THEN {MsgCritical, MsgOwnId, MsgNull, MsgMalformed}
    ELSE IF topic = PredictionTopic
    THEN {MsgZone, MsgCritical, MsgOwnTimestamp, MsgNull, MsgNumber, MsgMalformed}
    ELSE {MsgZone, MsgCritical, MsgNull, MsgNumber, MsgMalformed}

\* Every callback of the server. The specifications below restrict it to the
\* callbacks a group of properties is about, which keeps each state space small.
Next ==
    \/ \E topic \in Topics \cup {OtherTopic}, t \in ClockReadings :
          \E message \in MessagesOn(topic) :
             msgCount < MaxRelayMsgs /\ OnMessage(topic, message, t)
    \/ \E alertId \in AlertIds, t \in ClockReadings :
          ackCalls < MaxAckCalls /\ PostAcknowledge(alertId, t)
    \/ \E socket \in Sockets, alertId \in AlertIds :
          ackCalls < MaxAckCalls /\ AcknowledgeAlert(socket, alertId)
    \/ GetDashboardData
    \/ \E socket \in Sockets : Connection(socket)
    \/ \E socket \in Sockets : RequestData(socket)
    \/ \E socket \in Sockets : Disconnect(socket)

Spec == Init /\ [][Next]_vars

\* Every topic of the bus and the fan-out to the sockets.
NextRelay ==
    \/ \E topic \in Topics \cup {OtherTopic}, t \in ClockReadings :
          \E message \in MessagesOn(topic) :
             msgCount < MaxRelayMsgs /\ OnMessage(topic, message, t)
    \/ GetDashboardData
    \/ \E socket \in Sockets : Connection(socket)
    \/ \E socket \in Sockets : RequestData(socket)
    \/ \E socket \in Sockets : Disconnect(socket)

SpecRelay == Init /\ [][NextRelay]_vars

\* The alert payloads tried in a run of acknowledgments.
AckMessages == {MsgCritical, MsgOwnId}

\* Alerts and their acknowledgment through both paths.
NextAck ==
    \/ \E message \in AckMessages, t \in ClockReadings :
          msgCount < MaxAckMsgs /\ OnMessage(AlertTopic, message, t)
    \/ \E alertId \in AlertIds, t \in ClockReadings :
          ackCalls < MaxAckCalls /\ PostAcknowledge(alertId, t)
    \/ \E socket \in Sockets, alertId \in AlertIds :
          ackCalls < MaxAckCalls /\ AcknowledgeAlert(socket, alertId)
    \/ GetDashboardData
    \/ \E socket \in Sockets : Connection(socket)
    \/ \E socket \in Sockets : RequestData(socket)
    \/ \E socket \in Sockets : Disconnect(socket)

SpecAck == Init /\ [][NextAck]_vars

InitSensors == InitState /\ script \in Scripts(SensorScriptMessages)

NextSensors ==
    /\ msgCount < MaxSensorMsgs
    /\ OnMessage(SensorTopic, ScriptedMessage, ScriptedTime)

SpecSensors == InitSensors /\ [][NextSensors]_vars

InitAlerts == InitState /\ script \in Scripts(AlertScriptMessages)

NextAlerts ==
    /\ msgCount < MaxAlertMsgs
    /\ OnMessage(AlertTopic, ScriptedMessage, ScriptedTime)

SpecAlerts == InitAlerts /\ [][NextAlerts]_vars

StatsScriptMessages == {MsgCritical, MsgNull}

\* The alert list is at its capacity: the next alert overflows it.
AlertsFull == Len(dashboardData.alerts) >= MaxAlerts

\* The ids named by the acknowledgments of a long run: the newest alert, the
\* oldest one (the next to be truncated), and an id that is not in the list.
EndAlertIds ==
    {dashboardData.alerts[i].id : i \in {1, Len(dashboardData.alerts)} \ {0}}

OtherCalls == (msgCount - Len(alertLog)) + ackCalls

\* A long run of alerts, the clock advancing at each, fills the list; every
\* other callback that touches the statistics or may run between two alerts
\* then interleaves with the alerts that overflow it.
InitStats ==
    /\ InitState
    /\ script \in [messages : Cycles(StatsScriptMessages, PayloadCycleLen),
                   ticks : {<<1>>}]

NextStats ==
    \/ /\ Len(alertLog) < MaxAlertMsgs
       /\ OnMessage(AlertTopic, ScriptedMessage, ScriptedTime)
    \/ /\ AlertsFull
       /\ OtherCalls < MaxAckCalls
       /\ OnMessage(AnomalyTopic, MsgZone, now)
    \/ /\ AlertsFull
       /\ OtherCalls < MaxAckCalls
       /\ \E alertId \in EndAlertIds : PostAcknowledge(alertId, now)
    \/ /\ AlertsFull
       /\ OtherCalls < MaxAckCalls
       /\ \E socket \in Sockets, alertId \in EndAlertIds : AcknowledgeAlert(socket, alertId)
    \/ AlertsFull /\ GetDashboardData
    \/ AlertsFull /\ \E socket \in Sockets : Connection(socket)
    \/ AlertsFull /\ \E socket \in Sockets : RequestData(socket)
    \/ AlertsFull /\ \E socket \in Sockets : Disconnect(socket)

SpecStats == InitStats /\ [][NextStats]_vars

---------------------------------------------------------------------------
(* Properties *)

Min(a, b) == IF a < b THEN a ELSE b

\* Whether a decoded payload is an object whose severity is CRITICAL.
CriticalPayload(data) ==
    /\ data.type = "object"
    /\ "severity" \in DOMAIN data.fields
    /\ data.fields.severity = "CRITICAL"

\* Whether the stored record r carries every property of the decoded payload
\* data, except those the handler overrides.
CarriesPayload(r, data, overridden) ==
    \A f \in DOMAIN data.fields \ overridden :
        f \in DOMAIN r /\ r[f] = data.fields[f]

(* C1: the sensor collection never holds more than 100 entries, and a sensor
   reading that arrives under a new key when 100 are stored evicts exactly
   one entry, the oldest-inserted one: the other 99 stay, in order, followed
   by the new reading, and the evicted entry is older than all of them. *)
C1_SensorsBoundedFifo ==
    [][LET S == dashboardData.sensors
           T == dashboardData'.sensors
       IN  /\ Len(S) <= MaxSensors
           /\ Len(T) <= MaxSensors
           /\ (/\ Len(sensorLog') = Len(sensorLog) + 1
               /\ Len(S) = MaxSensors
               /\ \A i \in 1..Len(S) : S[i].key # SensorId(now'))
              => /\ Len(T) = MaxSensors
                 /\ \A i \in 1..(MaxSensors - 1) : T[i] = S[i + 1]
                 /\ T[MaxSensors].key = SensorId(now')
                 /\ T[MaxSensors].value.timestamp = now'
                 /\ \A i \in 2..MaxSensors :
                       S[1].value.timestamp < S[i].value.timestamp]_vars

\* 100 readings are stored, more than 100 were ingested, and the key of the
\* first reading has been deleted.
C1_Witness ==
    /\ Len(dashboardData.sensors) = MaxSensors
    /\ Len(sensorLog) > MaxSensors
    /\ \A i \in 1..Len(dashboardData.sensors) :
          dashboardData.sensors[i].key # SensorId(sensorLog[1][2])

(* C2: after N ingested sensor readings, whatever their arrival times, the
   sensor collection holds exactly the min(N, 100) most recently ingested
   readings. *)
C2_MostRecentReadingsStored ==
    LET S == dashboardData.sensors
        N == Len(sensorLog)
        K == Min(N, MaxSensors)
    IN  /\ Len(S) = K
        /\ \A i \in 1..K :
              /\ S[i].value.timestamp = sensorLog[N - K + i][2]
              /\ CarriesPayload(S[i].value, sensorLog[N - K + i][1], {"timestamp", "status"})

(* C3: after any sequence of decoded messages on the alert topic, the alert
   list holds at most 50 entries. *)
C3_AlertsBounded == Len(dashboardData.alerts) <= MaxAlerts

(* C4: after n alert ingestions the alert list is exactly the min(n, 50) most
   recently ingested alerts, newest first. *)
C4_AlertsNewestFirst ==
    LET A == dashboardData.alerts
        n == Len(alertLog)
        K == Min(n, MaxAlerts)
    IN  /\ Len(A) = K
        /\ \A i \in 1..K :
              /\ A[i].timestamp = alertLog[n - i + 1][2]
              /\ CarriesPayload(A[i], alertLog[n - i + 1][1], {"timestamp", "acknowledged"})

(* C5: totalAlerts equals the number of alert-ingestion events since start,
   the alerts since dropped from the list included, and criticalAlerts never
   exceeds totalAlerts. *)
C5_TotalAlertsCountsIngestions ==
    /\ dashboardData.statistics.totalAlerts = Len(alertLog)
    /\ dashboardData.statistics.criticalAlerts <= dashboardData.statistics.totalAlerts

\* More alerts were ingested than the list holds.
C5_Witness ==
    /\ dashboardData.statistics.totalAlerts > MaxAlerts
    /\ Len(dashboardData.alerts) = MaxAlerts
    /\ dashboardData.statistics.criticalAlerts > 0

(* C6: criticalAlerts equals the number of ingested alerts whose severity is
   'CRITICAL', whether or not they are still in the list; an alert with
   another severity, or none, does not change it. *)
C6_CriticalAlertsCountsCritical ==
    dashboardData.statistics.criticalAlerts =
        Cardinality({i \in 1..Len(alertLog) : CriticalPayload(alertLog[i][1])})

\* Critical and other alerts were ingested, and a critical one has been
\* dropped from the list.
C6_Witness ==
    /\ dashboardData.statistics.criticalAlerts > 1
    /\ dashboardData.statistics.criticalAlerts < dashboardData.statistics.totalAlerts
    /\ Len(alertLog) > MaxAlerts
    /\ Cardinality({i \in 1..Len(dashboardData.alerts) :
            /\ "severity" \in DOMAIN dashboardData.alerts[i]
            /\ dashboardData.alerts[i].severity = "CRITICAL"})
          < dashboardData.statistics.criticalAlerts

(* C7: an alert in the list that is acknowledged stays acknowledged through
   every step: an ingestion moves it one place down the list, every other
   callback leaves it in its place. *)
C7_AcknowledgedNeverReverts ==
    [][LET A == dashboardData.alerts
           B == dashboardData'.alerts
           shift == Len(alertLog') - Len(alertLog)
       IN  \A i \in 1..Len(A) :
              (A[i].acknowledged /\ i + shift <= Len(B)) => B[i + shift].acknowledged]_vars

\* An acknowledged alert has been moved down the list by a later ingestion,
\* and a later acknowledgment request has been served.
C7_Witness ==
    /\ Len(dashboardData.alerts) = 2
    /\ dashboardData.alerts[2].acknowledged
    /\ ~dashboardData.alerts[1].acknowledged
    /\ ackCalls = 2

(* C8: acknowledging a known alert id twice in succession through the
   request/response path succeeds both times and the second call leaves the
   alert as the first call left it, acknowledgment timestamp included. *)
C8_AcknowledgeIdempotent ==
    [][(/\ request.kind = "POST acknowledge"
        /\ response.status = 200
        /\ request'.kind = "POST acknowledge"
        /\ ackCalls' = ackCalls + 1
        /\ request'.id = request.id)
       => /\ response'.status = 200
          /\ response'.body.alert = response.body.alert]_vars

(* C9: acknowledging, through the request/response path, an id that no alert
   in the list has returns status 404, leaves the whole store unchanged and
   emits nothing. *)
C9_UnknownIdNotFound ==
    [][(/\ request'.kind = "POST acknowledge"
        /\ ackCalls' = ackCalls + 1
        /\ \A i \in 1..Len(dashboardData.alerts) :
              dashboardData.alerts[i].id # request'.id)
       => /\ response'.status = 404
          /\ dashboardData' = dashboardData
          /\ emitted' = <<>>]_vars

\* An unknown id was refused while the list held an alert.
C9_Witness ==
    /\ request.kind = "POST acknowledge"
    /\ response.status = 404
    /\ Len(dashboardData.alerts) > 0
    /\ clients # {}

(* C10: a bus message whose handling fails (the callback ends in its catch
   block), on any topic, changes nothing in the store and emits no event. *)
C10_FailedMessageNoEffect ==
    [][(/\ msgCount' = msgCount + 1
        /\ caught')
       => /\ dashboardData' = dashboardData
          /\ emitted' = <<>>]_vars

\* The places in the sequence of emitted events that hold the given event.
Events(out, event) == {i \in 1..Len(out) : out[i].event = event}

(* C11: every bus message that JSON.parse decodes, on any topic, a topic
   without a handler included, makes the callback emit exactly one dataUpdate
   event, carrying the topic and the decoded payload, to every connected
   socket. *)
C11_DecodedMessageOneDataUpdate ==
    [][(/\ msgCount' = msgCount + 1
        /\ JSONparse(request'.message).ok)
       => /\ Cardinality(Events(emitted', "dataUpdate")) = 1
          /\ \A i \in Events(emitted', "dataUpdate") :
                /\ emitted'[i].to = clients
                /\ emitted'[i].data.topic = request'.topic
                /\ emitted'[i].data.data = JSONparse(request'.message)]_vars

(* C12: every ingested alert is broadcast to every connected socket as exactly
   one newAlert event and exactly one dataUpdate event, and the newAlert event
   carries the stored alert record, with acknowledged = false, whatever the
   payload holds. *)
C12_AlertBroadcastOnce ==
    [][(Len(alertLog') = Len(alertLog) + 1)
       => /\ Cardinality(Events(emitted', "newAlert")) = 1
          /\ Cardinality(Events(emitted', "dataUpdate")) = 1
          /\ \A i \in Events(emitted', "newAlert") :
                /\ emitted'[i].to = clients
                /\ emitted'[i].data = dashboardData'.alerts[1]
                /\ emitted'[i].data.acknowledged = FALSE
          /\ \A i \in Events(emitted', "dataUpdate") : emitted'[i].to = clients]_vars

(* C13: the identifiers of the alerts in the list are pairwise distinct, for
   any payloads and arrival times, so an acknowledgment by id addresses
   exactly one alert. *)
C13_AlertIdsDistinct ==
    \A i, j \in 1..Len(dashboardData.alerts) :
        i # j => dashboardData.alerts[i].id # dashboardData.alerts[j].id

(* C14: every acknowledgment of an alert in the list, through the
   request/response path or through a socket's acknowledgeAlert, broadcasts
   alertAcknowledged with the alert id to every connected socket. *)
C14_AcknowledgmentBroadcast ==
    [][(/\ ackCalls' = ackCalls + 1
        /\ \E i \in 1..Len(dashboardData.alerts) :
              dashboardData.alerts[i].id = request'.id)
       => \E i \in Events(emitted', "alertAcknowledged") :
             /\ emitted'[i].data = request'.id
             /\ emitted'[i].to = clients]_vars

(* C15: a socket that connects, at any point of any interleaving of alerts
   and acknowledgments, is sent exactly one message by the connection
   callback: initialData, to that socket alone, carrying the store as it is
   at that moment, which the callback leaves as it is. No other callback
   sends initialData. *)
C15_InitialDataIsCurrentStore ==
    [][/\ (request'.kind = "connection")
          => /\ emitted' = <<[event |-> "initialData",
                              to |-> {request'.socket},
                              data |-> dashboardData]>>
             /\ dashboardData' = dashboardData
             /\ request'.socket \in clients' \ clients
       /\ (request'.kind # "connection")
          => Events(emitted', "initialData") = {}]_vars

\* A socket has just connected after an alert was stored and acknowledged,
\* and was sent the store holding that acknowledged alert.
C15_Witness ==
    /\ request.kind = "connection"
    /\ ackCalls > 0
    /\ \E i \in 1..Len(dashboardData.alerts) : dashboardData.alerts[i].acknowledged
    /\ emitted = <<SocketEmit(request.socket, "initialData", dashboardData)>>

(* C16: a requestData from a socket is answered with one message, carrying
   the whole current store, to the requesting socket only: no other socket
   is sent anything, and the store and the set of sockets are unchanged. *)
C16_RequestDataRepliesToRequesterOnly ==
    [][(request'.kind = "requestData")
       => /\ Len(emitted') = 1
          /\ emitted'[1].to = {request'.socket}
          /\ emitted'[1].data = dashboardData
          /\ dashboardData' = dashboardData
          /\ clients' = clients]_vars

\* A socket asked for the data while another socket was connected and the
\* store had changed since start-up, and it alone was answered.
C16_Witness ==
    /\ request.kind = "requestData"
    /\ Cardinality(clients) = 2
    /\ dashboardData # InitialData
    /\ Len(emitted) = 1
    /\ emitted[1].to = {request.socket}
    /\ emitted[1].data = dashboardData

(* C17: an acknowledgeAlert from a socket naming an id no stored alert has
   is ignored in silence: the store is unchanged, nothing is sent to any
   socket, and no error answer is produced. *)
C17_UnknownIdIgnoredOnSocket ==
    [][(/\ request'.kind = "acknowledgeAlert"
        /\ \A i \in 1..Len(dashboardData.alerts) :
              dashboardData.alerts[i].id # request'.id)
       => /\ dashboardData' = dashboardData
          /\ emitted' = <<>>
          /\ response' = NoResponse
          /\ ~caught']_vars

\* A socket acknowledged an unknown id while alerts were stored and another
\* socket was listening.
C17_Witness ==
    /\ request.kind = "acknowledgeAlert"
    /\ request.id = UnknownId
    /\ Len(dashboardData.alerts) > 0
    /\ Cardinality(clients) = 2
    /\ emitted = <<>>

(* C18: no callback ever decreases a statistics counter: totalAlerts,
   criticalAlerts and anomaliesDetected are each at least what they were,
   through ingestion, acknowledgment on either path, truncation of the
   alert list, connection, disconnection and refresh. *)
C18_CountersNeverDecrease ==
    [][/\ dashboardData'.statistics.totalAlerts >= dashboardData.statistics.totalAlerts
       /\ dashboardData'.statistics.criticalAlerts >= dashboardData.statistics.criticalAlerts
       /\ dashboardData'.statistics.anomaliesDetected
             >= dashboardData.statistics.anomaliesDetected]_vars

\* More alerts were counted than the list holds, after a truncation, an
\* anomaly, an acknowledgment and a connection.
C18_Witness ==
    /\ dashboardData.statistics.totalAlerts > MaxAlerts
    /\ Len(dashboardData.alerts) = MaxAlerts
    /\ dashboardData.statistics.criticalAlerts > 0
    /\ dashboardData.statistics.anomaliesDetected > 0
    /\ \E i \in 1..Len(dashboardData.alerts) : dashboardData.alerts[i].acknowledged
    /\ clients # {}

(* C19: in every reachable state, every acknowledged alert carries an
   acknowledgment timestamp, whichever path acknowledged it. *)
C19_AcknowledgedHasTimestamp ==
    \A i \in 1..Len(dashboardData.alerts) :
        dashboardData.alerts[i].acknowledged
            => "acknowledgedAt" \in DOMAIN dashboardData.alerts[i]

(* C20: in every state between two callbacks the alert list holds
   min(totalAlerts, 50) alerts, and every callback that counts an alert in
   totalAlerts also broadcasts it as newAlert. *)
C20_NoPartialAlertIngestion ==
    [][/\ Len(dashboardData'.alerts)
             = Min(dashboardData'.statistics.totalAlerts, MaxAlerts)
       /\ (dashboardData'.statistics.totalAlerts > dashboardData.statistics.totalAlerts)
             => \E i \in Events(emitted', "newAlert") :
                   /\ emitted'[i].to = clients
                   /\ emitted'[i].data = dashboardData'.alerts[1]]_vars

(* C21: a decoded message changes only the part of the store that belongs
   to its topic: a sensor message only the sensors; an alert message only
   the alert list, totalAlerts and criticalAlerts, counting one alert; a
   prediction message only the predictions; an anomaly message adds exactly
   1 to anomaliesDetected and changes nothing else; a message on a topic
   without a handler changes nothing. No message changes systemStatus or the
   set of connected sockets. *)
C21_MessageChangesOwnComponentOnly ==
    [][(/\ msgCount' = msgCount + 1
        /\ JSONparse(request'.message).ok)
       => LET d == dashboardData
              e == dashboardData'
              topic == request'.topic
          IN  /\ e.systemStatus = d.systemStatus
              /\ clients' = clients
              /\ (topic = SensorTopic) => e = [d EXCEPT !.sensors = e.sensors]
              /\ (topic = AlertTopic)
                    => /\ e = [d EXCEPT !.alerts = e.alerts,
                                        !.statistics.totalAlerts = @ + 1,
                                        !.statistics.criticalAlerts =
                                            e.statistics.criticalAlerts]
                       /\ e.alerts # d.alerts
              /\ (topic = PredictionTopic)
                    => e = [d EXCEPT !.predictions = e.predictions]
              /\ (topic = AnomalyTopic)
                    => e = [d EXCEPT !.statistics.anomaliesDetected = @ + 1]
              /\ (topic \notin Topics) => e = d]_vars

\* An anomaly message has just been counted in a store that already held an
\* alert, and left the alert and its counters as they were.
C21_Witness ==
    /\ request.kind = "message"
    /\ request.topic = AnomalyTopic
    /\ JSONparse(request.message).ok
    /\ dashboardData.statistics.anomaliesDetected = 1
    /\ dashboardData.statistics.totalAlerts = 1
    /\ Len(dashboardData.alerts) = 1

(* C22: the store holds one prediction snapshot, empty until the first
   prediction message; after each prediction message it consists of exactly
   the fields of that message's payload and the timestamp of its receipt,
   which takes the place of a timestamp the payload carries. No field of an
   earlier prediction remains, and no other callback changes the snapshot. *)
C22_PredictionFullyReplaced ==
    LET n == Len(predictionLog)
        stored == dashboardData.predictions
    IN  IF n = 0
        THEN stored = InitialData.predictions
        ELSE LET P == predictionLog[n][1].fields
             IN  /\ DOMAIN stored = DOMAIN P \cup {"timestamp"}
                 /\ stored.timestamp = predictionLog[n][2]
                 /\ \A f \in DOMAIN P \ {"timestamp"} : stored[f] = P[f]

\* A second prediction has just been stored, and a field of the first one,
\* which the second does not carry, is gone.
C22_Witness ==
    /\ Len(predictionLog) = 2
    /\ request.kind = "message"
    /\ request.topic = PredictionTopic
    /\ \E f \in DOMAIN predictionLog[1][1].fields :
          /\ f \notin DOMAIN predictionLog[2][1].fields
          /\ f \notin DOMAIN dashboardData.predictions
====
